---------------------------- MODULE Spec2Model ----------------------------
(***************************************************************************)
(* A model of mandelbrot.cc: the SSE2 escape-time evaluator member4, the   *)
(* palette lookup and pixel write of the renderer, and the frame loop of   *)
(* mandelbrot() with its OpenMP row loop, zoom step and event poll.        *)
(*                                                                         *)
(* Single-precision values are modelled as binary floating-point numbers   *)
(* with a P-bit significand (binary32 has 24), round-to-nearest-even,      *)
(* overflow to infinity, NaN, and gradual underflow.  A value is a pair    *)
(* <<m, e>> standing for m * 2^e, m odd (or <<0, 0>>); the pairs with      *)
(* e = SPECIAL are +Inf (m = 1), -Inf (m = -1) and NaN (m = 0).  The sign  *)
(* of zero is not modelled: no operation of the program observes it.       *)
(* 32-bit integer lanes are modelled as two's-complement integers, so that *)
(* 0xFFFFFFFF is -1.                                                       *)
(***************************************************************************)
EXTENDS Integers, Sequences, FiniteSets, TLC

VARIABLES
    \* member4, run one loop iteration at a time
    m4,         \* the locals of member4 at the loop test
    mpc,        \* "loop" | "returned"
    ret,        \* the vector member4 returned
    steps,      \* loop iterations executed so far
    \* the palette index computation on one vector of iteration counts
    pits4,      \* the iteration counts handed to the renderer
    pidx4,      \* the colour indices computed from them
    ppc,        \* "count" | "index"
    \* mandelbrot(): the frame loop
    poi,        \* <<PX, PY>>, the point the window is centred on
    pc,         \* where the control thread is: "top" | "parallel" | "flip" |
                \* "zoom" | "poll" | "done"
    depth, quit, delta_x4, delta_y, y_offset, x_offset4, y_base,
    next_row,   \* the first row of the parallel loop not yet handed out
    workers,    \* per thread of the team: its chunk, loop indices and privates
    surface,    \* surface->pixels, one 32-bit pixel per element
    events,     \* the SDL event queue
    \* history
    frames,     \* render passes completed and flipped
    started,    \* render passes started
    posted,     \* events posted so far
    quit_early, \* SDL_QUIT was posted before the first render pass completed
    writes,     \* per pixel, the <<thread, row>> of every write of this pass
    row_win,    \* per row, the window the row was computed from in this pass
    its4        \* member4's value on each <<x4, y4>> the passes call it with

memberVars == <<m4, mpc, ret, steps>>
palVars == <<pits4, pidx4, ppc>>
windowVars == <<depth, delta_x4, delta_y, y_offset, x_offset4>>
frameVars == <<poi, pc, quit, windowVars, y_base, next_row, workers, surface, events,
               frames, started, posted, quit_early, writes, row_win, its4>>
vars == <<memberVars, palVars, frameVars>>

\* ---------------------------------------------------------------- bounds

\* Significand width of the modelled float format.
P == 8

\* ------------------------------------------------------ program constants

\* const int MAX_ITS: the iteration cap.  The model runs a smaller cap than
\* the source's 500, kept above 64 so that counts wrap the 0x3F mask.
MAX_ITS == 66

\* Rows of the surface, and 4-pixel batches per row.
Y_RES == 2
XBatches == 2
\* const int X_RES: a multiple of the batch width.
X_RES == 4 * XBatches

\* const int MAX_DEPTH, scaled down with the frames the model runs.
MAX_DEPTH == 2
\* Render passes after which the model stops starting new ones.
MaxFrames == 3
\* Events the environment posts in one run.
MaxEvents == 2
\* Threads of the OpenMP team.
NumThreads == 2

\* Largest binary exponent of binary32: values of magnitude 2^128 and above
\* overflow to infinity; 2^-149 is the smallest subnormal.
EMAX == 128
EMIN == -149
SPECIAL == 9999

Lanes == 0..3

\* ------------------------------------------------------------ arithmetic

Abs(n) == IF n < 0 THEN -n ELSE n
Sgn(n) == IF n < 0 THEN -1 ELSE IF n = 0 THEN 0 ELSE 1
Max(a, b) == IF a >= b THEN a ELSE b
Min(a, b) == IF a <= b THEN a ELSE b

RECURSIVE BitLen(_)
\* Number of bits of n >= 0 (0 for 0).
BitLen(n) == IF n = 0 THEN 0 ELSE 1 + BitLen(n \div 2)

RECURSIVE Strip(_, _)
\* The canonical pair of m * 2^e, m # 0: trailing zero bits moved to e.
Strip(m, e) == IF m % 2 = 0 THEN Strip(m \div 2, e + 1) ELSE <<m, e>>

NaN == <<0, SPECIAL>>
Inf(s) == <<s, SPECIAL>>
Zero == <<0, 0>>
IsNaN(a) == a[2] = SPECIAL /\ a[1] = 0
IsInf(a) == a[2] = SPECIAL /\ a[1] # 0
IsFinite(a) == a[2] # SPECIAL

\* Round the exact value M * 2^e to the format: to nearest, ties to even,
\* P significant bits, multiples of 2^EMIN, infinity from 2^EMAX on.
Round(M, e) ==
    IF M = 0 THEN Zero
    ELSE LET a == Abs(M)
             L == BitLen(a)
             s == Max(Max(L - P, EMIN - e), 0)
         IN  IF s > L + 1 THEN Zero
             ELSE LET q == a \div (2 ^ s)
                      r == a % (2 ^ s)
                      up == s > 0 /\ (2 * r > 2 ^ s \/ (2 * r = 2 ^ s /\ q % 2 = 1))
                      n == IF up THEN q + 1 ELSE q
                  IN  IF n = 0 THEN Zero
                      ELSE IF BitLen(n) + e + s > EMAX THEN Inf(Sgn(M))
                      ELSE Strip(Sgn(M) * n, e + s)

\* (float)n of an int n.
FromInt(n) == Round(n, 0)

\* round(n / d * 2^e) for integers n and d > 0: the quotient to P + 2 bits and
\* a sticky bit for the remainder, then one rounding.
DivRound(n, d, e) ==
    IF n = 0 THEN Zero
    ELSE LET a == Abs(n)
             K == Max(0, P + 2 + BitLen(d) - BitLen(a))
             q == (a * (2 ^ K)) \div d
             r == (a * (2 ^ K)) % d
         IN  Round(Sgn(n) * (2 * q + (IF r = 0 THEN 0 ELSE 1)), e - K - 1)

\* The float nearest to the decimal literal n / d.
FromRat(n, d) == DivRound(n, d, 0)

FNeg(a) == <<-a[1], a[2]>>

FMul(a, b) ==
    IF IsNaN(a) \/ IsNaN(b) THEN NaN
    ELSE IF IsInf(a) \/ IsInf(b)
         THEN (IF a[1] = 0 \/ b[1] = 0 THEN NaN ELSE Inf(Sgn(a[1]) * Sgn(b[1])))
    ELSE IF a[1] = 0 \/ b[1] = 0 THEN Zero
    ELSE Round(a[1] * b[1], a[2] + b[2])

\* The sum of two finite non-zero values, a the one with the larger exponent.
\* When b lies below a quarter of a's last place the sum rounds back to a.
AddAligned(a, b) ==
    LET d == a[2] - b[2]
    IN  IF d >= 2 * P + 2 THEN a
        ELSE Round(a[1] * (2 ^ d) + b[1], b[2])

FAdd(a, b) ==
    IF IsNaN(a) \/ IsNaN(b) THEN NaN
    ELSE IF IsInf(a) THEN (IF IsInf(b) /\ b[1] # a[1] THEN NaN ELSE a)
    ELSE IF IsInf(b) THEN b
    ELSE IF a[1] = 0 THEN b
    ELSE IF b[1] = 0 THEN a
    ELSE IF a[2] >= b[2] THEN AddAligned(a, b) ELSE AddAligned(b, a)

FSub(a, b) == FAdd(a, FNeg(b))

FDiv(a, b) ==
    IF IsNaN(a) \/ IsNaN(b) THEN NaN
    ELSE IF IsInf(a) THEN (IF IsInf(b) THEN NaN
                           ELSE Inf(a[1] * (IF b[1] < 0 THEN -1 ELSE 1)))
    ELSE IF IsInf(b) THEN Zero
    ELSE IF b[1] = 0 THEN (IF a[1] = 0 THEN NaN ELSE Inf(Sgn(a[1])))
    ELSE DivRound(a[1] * Sgn(b[1]), Abs(b[1]), a[2] - b[2])

\* a < b of two finite non-zero values of the same sign s, by magnitude.
MagLt(a, b) ==
    LET ta == BitLen(Abs(a[1])) + a[2]
        tb == BitLen(Abs(b[1])) + b[2]
    IN  IF ta # tb THEN ta < tb
        ELSE IF a[2] >= b[2] THEN Abs(a[1]) * (2 ^ (a[2] - b[2])) < Abs(b[1])
        ELSE Abs(a[1]) < Abs(b[1]) * (2 ^ (b[2] - a[2]))

\* The ordered comparison a < b: false when either is NaN.
FLt(a, b) ==
    IF IsNaN(a) \/ IsNaN(b) THEN FALSE
    ELSE IF Sgn(a[1]) # Sgn(b[1]) THEN Sgn(a[1]) < Sgn(b[1])
    ELSE IF a[1] = 0 THEN FALSE
    ELSE IF IsInf(a) \/ IsInf(b) THEN
         (IF a[1] > 0 THEN ~IsInf(a) /\ IsInf(b) ELSE IsInf(a) /\ ~IsInf(b))
    ELSE IF a[1] > 0 THEN MagLt(a, b) ELSE MagLt(b, a)


\* ------------------------------------------------------- integer lanes

RECURSIVE BitAnd(_, _)
\* Bitwise AND of two's-complement integers.
BitAnd(a, b) ==
    IF a = 0 \/ b = 0 THEN 0
    ELSE IF a = -1 THEN b
    ELSE IF b = -1 THEN a
    ELSE (a % 2) * (b % 2) + 2 * BitAnd(a \div 2, b \div 2)

RECURSIVE BitXor(_, _)
\* Bitwise XOR of two's-complement integers.
BitXor(a, b) ==
    IF a = 0 THEN b
    ELSE IF b = 0 THEN a
    ELSE IF a = -1 THEN -1 - b
    ELSE IF b = -1 THEN -1 - a
    ELSE (((a % 2) + (b % 2)) % 2) + 2 * BitXor(a \div 2, b \div 2)

\* ------------------------------------------------------- SSE intrinsics

\* A 128-bit register is the tuple of its four 32-bit lanes: lane j of the
\* source (element j of the union's int[4]) is element j + 1 of the tuple.
mm_set1_ps(a) == <<a, a, a, a>>
mm_setr_ps(a, b, c, d) == <<a, b, c, d>>
mm_set1_epi32(n) == <<n, n, n, n>>
mm_setzero_si128 == <<0, 0, 0, 0>>
mm_mul_ps(a4, b4) ==
    <<FMul(a4[1], b4[1]), FMul(a4[2], b4[2]), FMul(a4[3], b4[3]), FMul(a4[4], b4[4])>>
mm_add_ps(a4, b4) ==
    <<FAdd(a4[1], b4[1]), FAdd(a4[2], b4[2]), FAdd(a4[3], b4[3]), FAdd(a4[4], b4[4])>>
mm_sub_ps(a4, b4) ==
    <<FSub(a4[1], b4[1]), FSub(a4[2], b4[2]), FSub(a4[3], b4[3]), FSub(a4[4], b4[4])>>
\* One lane of a comparison mask: 0xFFFFFFFF or 0.
MaskOf(b) == IF b THEN -1 ELSE 0
\* The comparison mask, read as an integer vector: 0xFFFFFFFF where a < b.
mm_cmplt_ps(a4, b4) ==
    <<MaskOf(FLt(a4[1], b4[1])), MaskOf(FLt(a4[2], b4[2])),
      MaskOf(FLt(a4[3], b4[3])), MaskOf(FLt(a4[4], b4[4]))>>
mm_and_si128(a4, b4) ==
    <<BitAnd(a4[1], b4[1]), BitAnd(a4[2], b4[2]), BitAnd(a4[3], b4[3]), BitAnd(a4[4], b4[4])>>
mm_xor_si128(a4, b4) ==
    <<BitXor(a4[1], b4[1]), BitXor(a4[2], b4[2]), BitXor(a4[3], b4[3]), BitXor(a4[4], b4[4])>>
mm_cmpeq_epi32(a4, b4) ==
    <<MaskOf(a4[1] = b4[1]), MaskOf(a4[2] = b4[2]),
      MaskOf(a4[3] = b4[3]), MaskOf(a4[4] = b4[4])>>
mm_add_epi32(a4, b4) == <<a4[1] + b4[1], a4[2] + b4[2], a4[3] + b4[3], a4[4] + b4[4]>>
mm_sub_epi32(a4, b4) == <<a4[1] - b4[1], a4[2] - b4[2], a4[3] - b4[3], a4[4] - b4[4]>>

\* The most significant bit of byte j (0..3) of a 32-bit lane.
ByteMsb(v, j) ==
    IF j = 3 THEN (IF v < 0 THEN 1 ELSE 0) ELSE (v \div (2 ^ (8 * j + 7))) % 2

RECURSIVE MaskBits(_, _)
\* Bits n..15 of the byte mask of a4.
MaskBits(a4, n) ==
    IF n = 16 THEN 0
    ELSE ByteMsb(a4[(n \div 4) + 1], n % 4) * (2 ^ n) + MaskBits(a4, n + 1)

mm_movemask_epi8(a4) == MaskBits(a4, 0)

\* --------------------------------------------------------------- member4

MAX_ITERATIONS_4 == mm_set1_epi32(MAX_ITS)
DIST_LIMIT_4 == mm_set1_ps(FromInt(4))
ALL_EXITED == 65535

\* Mutant: no lane is tested for escape before the loop.
InitialNotEscape_NoTest(x_sq4, y_sq4) == mm_set1_epi32(-1)

\* not_escape4 before the loop: all ones in the lanes with x*x + y*y < 4.
InitialNotEscape(x_sq4, y_sq4) ==
    mm_cmplt_ps(mm_add_ps(x_sq4, y_sq4), DIST_LIMIT_4)

\* Mutant: every lane counts down, escaped or not.
Decrement_AllLanes(iterations4, not_escape4) ==
    mm_add_epi32(iterations4, mm_set1_epi32(-1))

\* iterations4 + not_escape4: the lanes that have not escaped count down.
Decrement(iterations4, not_escape4) == mm_add_epi32(iterations4, not_escape4)

\* Mutant: the loop test ignores the countdown.
ExitMask_NoCap(not_escape4, iterations4) ==
    mm_movemask_epi8(mm_cmpeq_epi32(not_escape4, mm_setzero_si128))

\* The loop test: the byte mask of the lanes that have escaped or counted
\* down to 0.
ExitMask(not_escape4, iterations4) ==
    mm_movemask_epi8(mm_cmpeq_epi32(mm_and_si128(not_escape4, iterations4),
                                    mm_setzero_si128))

\* The locals of member4 on reaching the loop test for the first time.
M4Init(cx4, cy4) ==
    LET x_sq4 == mm_mul_ps(cx4, cx4)
        y_sq4 == mm_mul_ps(cy4, cy4)
        not_escape4 == InitialNotEscape(x_sq4, y_sq4)
    IN  [cx4 |-> cx4, cy4 |-> cy4,
         iterations4 |-> MAX_ITERATIONS_4,
         x4 |-> cx4, y4 |-> cy4, x_sq4 |-> x_sq4, y_sq4 |-> y_sq4,
         not_escape4 |-> not_escape4,
         mask |-> ExitMask(not_escape4, MAX_ITERATIONS_4)]

\* One pass through the loop body.
M4Step(s) ==
    LET iterations4 == Decrement(s.iterations4, s.not_escape4)
        xy4 == mm_mul_ps(s.x4, s.y4)
        y4 == mm_add_ps(mm_add_ps(xy4, xy4), s.cy4)
        x4 == mm_add_ps(mm_sub_ps(s.x_sq4, s.y_sq4), s.cx4)
        x_sq4 == mm_mul_ps(x4, x4)
        y_sq4 == mm_mul_ps(y4, y4)
        aux4_a == mm_cmplt_ps(mm_add_ps(x_sq4, y_sq4), DIST_LIMIT_4)
        not_escape4 == mm_and_si128(aux4_a, s.not_escape4)
    IN  [cx4 |-> s.cx4, cy4 |-> s.cy4,
         iterations4 |-> iterations4,
         x4 |-> x4, y4 |-> y4, x_sq4 |-> x_sq4, y_sq4 |-> y_sq4,
         not_escape4 |-> not_escape4,
         mask |-> ExitMask(not_escape4, iterations4)]

\* The loop test and, when it holds, one pass through the body.
M4Guarded(s) == IF s.mask = ALL_EXITED THEN s ELSE M4Step(s)

RECURSIVE M4Iterate(_, _)
\* n >= 1 rounds of test-and-body from s, evaluated by halving n so that the
\* evaluation nests log n deep; a state that fails the test is returned as is.
M4Iterate(s, n) ==
    IF s.mask = ALL_EXITED THEN s
    ELSE IF n = 1 THEN M4Guarded(s)
    ELSE CHOOSE r \in {M4Iterate(t, n - (n \div 2)) : t \in {M4Iterate(s, n \div 2)}} : TRUE

\* while (mask != 0xFFFF) { ... }: the locals when the loop test fails.  The
\* loop is run for MAX_ITS + 1 rounds, one more than it can take.
M4Run(s) == M4Iterate(s, MAX_ITS + 1)

M4Return(s) == mm_sub_epi32(MAX_ITERATIONS_4, s.iterations4)

member4(cx4, cy4) == M4Return(M4Run(M4Init(cx4, cy4)))


\* --------------------------------------------------------------- palette

\* unsigned char pal[]: 65 RGB triples, pal[n] of the source is pal[n + 1].
pal == <<
    0, 0, 0,
    255, 180, 4,
    240, 156, 4,
    220, 124, 4,
    156, 71, 4,
    72, 20, 4,
    251, 180, 4,
    180, 74, 4,
    180, 70, 4,
    164, 91, 4,
    100, 28, 4,
    191, 82, 4,
    47, 5, 4,
    138, 39, 4,
    81, 27, 4,
    192, 89, 4,
    61, 27, 4,
    216, 148, 4,
    71, 14, 4,
    142, 48, 4,
    196, 102, 4,
    58, 9, 4,
    132, 45, 4,
    95, 15, 4,
    92, 21, 4,
    166, 59, 4,
    244, 178, 4,
    194, 121, 4,
    120, 41, 4,
    53, 14, 4,
    80, 15, 4,
    23, 3, 4,
    249, 204, 4,
    97, 25, 4,
    124, 30, 4,
    151, 57, 4,
    104, 36, 4,
    239, 171, 4,
    131, 57, 4,
    111, 23, 4,
    4, 2, 4,
    255, 180, 4,
    240, 156, 4,
    220, 124, 4,
    156, 71, 4,
    72, 20, 4,
    251, 180, 4,
    180, 74, 4,
    180, 70, 4,
    164, 91, 4,
    100, 28, 4,
    191, 82, 4,
    47, 5, 4,
    138, 39, 4,
    81, 27, 4,
    192, 89, 4,
    61, 27, 4,
    216, 148, 4,
    71, 14, 4,
    142, 48, 4,
    196, 102, 4,
    58, 9, 4,
    132, 45, 4,
    95, 15, 4,
    92, 21, 4
>>

PAL_SIZE == 40

\* The number of RGB triples in pal.
PalEntries == Len(pal) \div 3

\* pal[index], pal[index + 1], pal[index + 2] for index = 3 * color_index.
PalColor(color_index) ==
    LET index == color_index * 3
    IN  <<pal[index + 1], pal[index + 2], pal[index + 3]>>

\* Mutant: the index keeps the modulo result for lanes that reached MAX_ITS.
ColorIndex_NoMaxMask(iterations4) ==
    mm_add_epi32(mm_and_si128(iterations4, mm_set1_epi32(63)), mm_set1_epi32(1))

\* Mutant: the first colour of the palette is not skipped.
ColorIndex_NoIncrement(iterations4) ==
    mm_and_si128(mm_and_si128(iterations4, mm_set1_epi32(63)),
                 mm_xor_si128(mm_cmpeq_epi32(iterations4, MAX_ITERATIONS_4),
                              mm_set1_epi32(-1)))

\* The colour indices the renderer derives from member4's counts: 0 in the
\* lanes equal to MAX_ITS, (count AND 0x3F) + 1 in the others.
ColorIndex(iterations4) ==
    LET increment4 == mm_set1_epi32(1)
        all_ones_mask4 == mm_set1_epi32(-1)
        mod_mask4 == mm_set1_epi32(63)
        max_mask4 == mm_xor_si128(mm_cmpeq_epi32(iterations4, MAX_ITERATIONS_4),
                                  all_ones_mask4)
    IN  mm_and_si128(mm_add_epi32(mm_and_si128(iterations4, mod_mask4), increment4),
                     max_mask4)

\* -------------------------------------------- specification: member4 alone

\* The points the lanes of a batch are drawn from, in eighths: -1 (a periodic
\* orbit that never escapes), one outside the limit from the start, and two
\* that escape after a few and after more iterations.
MemberPoints ==
    {<<FromRat(-8, 8), FromRat(0, 8)>>, <<FromRat(-20, 8), FromRat(-20, 8)>>,
     <<FromRat(-15, 8), FromRat(-2, 8)>>, <<FromRat(3, 8), FromRat(3, 8)>>}

Idle4 == mm_setzero_si128

\* The frame loop is not part of this specification.
FrameOff ==
    /\ poi = <<Zero, Zero>> /\ pc = "off" /\ depth = 0 /\ quit = FALSE
    /\ delta_x4 = Idle4 /\ delta_y = Zero /\ y_offset = Zero /\ x_offset4 = Idle4
    /\ y_base = Zero /\ next_row = 0 /\ workers = <<>> /\ surface = <<>>
    /\ events = <<>> /\ frames = 0 /\ started = 0 /\ posted = 0
    /\ quit_early = FALSE /\ writes = <<>> /\ row_win = <<>> /\ its4 = <<>>

InitMember ==
    /\ \E a \in MemberPoints, b \in MemberPoints, c \in MemberPoints, d \in MemberPoints :
          m4 = M4Init(mm_setr_ps(a[1], b[1], c[1], d[1]), mm_setr_ps(a[2], b[2], c[2], d[2]))
    /\ mpc = "loop"
    /\ ret = Idle4
    /\ steps = 0
    /\ pits4 = Idle4 /\ pidx4 = Idle4 /\ ppc = "off"
    /\ FrameOff

\* while (mask != 0xFFFF): one pass through the body.
LoopIter ==
    /\ mpc = "loop"
    /\ m4.mask # ALL_EXITED
    /\ m4' = M4Step(m4)
    /\ steps' = steps + 1
    /\ UNCHANGED <<mpc, ret, palVars, frameVars>>

\* The loop test fails: return MAX_ITERATIONS_4 - iterations4.
LoopExit ==
    /\ mpc = "loop"
    /\ m4.mask = ALL_EXITED
    /\ ret' = M4Return(m4)
    /\ mpc' = "returned"
    /\ UNCHANGED <<m4, steps, palVars, frameVars>>

NextMember == LoopIter \/ LoopExit

SpecMember == InitMember /\ [][NextMember]_vars

\* ------------------------------------- specification: the palette index

NoMember == [mask |-> ALL_EXITED]

InitPal ==
    /\ \E k \in 0..MAX_ITS : pits4 = <<k, MAX_ITS - k, 0, MAX_ITS>>
    /\ pidx4 = Idle4
    /\ ppc = "count"
    /\ m4 = NoMember /\ mpc = "off" /\ ret = Idle4 /\ steps = 0
    /\ FrameOff

\* Lines 273-292: the colour indices of one vector of counts.
ComputeIndex ==
    /\ ppc = "count"
    /\ pidx4' = ColorIndex(pits4)
    /\ ppc' = "index"
    /\ UNCHANGED <<pits4, memberVars, frameVars>>

NextPal == ComputeIndex

SpecPal == InitPal /\ [][NextPal]_vars


\* ------------------------------------------------------ claims on member4

RECURSIVE ScalarLoop(_, _, _, _, _)
\* The scalar escape-time loop of one point, from iteration k at (x, y):
\* while k < MAX_ITS and x*x + y*y < 4: (x, y) = (x*x - y*y + cx, 2*x*y + cy).
ScalarLoop(k, x, y, cx, cy) ==
    IF k < MAX_ITS /\ FLt(FAdd(FMul(x, x), FMul(y, y)), FromInt(4))
    THEN CHOOSE r \in {ScalarLoop(k + 1, z[1], z[2], cx, cy) :
                       z \in {<<FAdd(FSub(FMul(x, x), FMul(y, y)), cx),
                                FAdd(FMul(FMul(FromInt(2), x), y), cy)>>}} : TRUE
    ELSE k

ScalarIts(cx, cy) == ScalarLoop(0, cx, cy, cx, cy)

\* C1: member4 returns in every lane the count the scalar escape-time loop
\* produces on that lane's point alone, whatever the other three lanes hold.
C1_LanesMatchScalar ==
    mpc = "returned" =>
        \A j \in Lanes : ret[j + 1] = ScalarIts(m4.cx4[j + 1], m4.cy4[j + 1])

\* A returned batch whose lanes finished at different times: one at the cap,
\* one at once, one in between.
C1_Witness ==
    /\ mpc = "returned"
    /\ \E i, j, k \in Lanes :
          ret[i + 1] = MAX_ITS /\ ret[j + 1] = 0 /\ ret[k + 1] \in 1..(MAX_ITS - 1)

\* C8 as stated: a loop iteration leaves an escaped lane's counter and its
\* orbit state (x, y) unchanged.
C8_EscapedLaneUntouched ==
    [][\A j \in Lanes :
          (mpc = "loop" /\ m4.not_escape4[j + 1] = 0) =>
              /\ m4'.iterations4[j + 1] = m4.iterations4[j + 1]
              /\ m4'.x4[j + 1] = m4.x4[j + 1]
              /\ m4'.y4[j + 1] = m4.y4[j + 1]]_vars

\* C8, amended: a loop iteration leaves an escaped lane's counter unchanged
\* and the lane stays escaped, while every lane that has not escaped counts
\* down by one; the escaped lane's (x, y) are recomputed all the same.
C8_EscapedLaneFrozen ==
    [][\A j \in Lanes :
          /\ (mpc = "loop" /\ m4.not_escape4[j + 1] = 0) =>
                /\ m4'.iterations4[j + 1] = m4.iterations4[j + 1]
                /\ m4'.not_escape4[j + 1] = 0
          /\ (mpc = "loop" /\ m4.not_escape4[j + 1] # 0 /\ steps' # steps) =>
                m4'.iterations4[j + 1] = m4.iterations4[j + 1] - 1]_vars

\* The loop is still running with one lane escaped earlier and another that
\* has advanced past it.
C8_Witness ==
    /\ mpc = "loop"
    /\ m4.mask # ALL_EXITED
    /\ \E i, j \in Lanes :
          /\ m4.not_escape4[i + 1] = 0
          /\ m4.not_escape4[j + 1] = -1
          /\ m4.iterations4[j + 1] < m4.iterations4[i + 1]
          /\ m4.iterations4[i + 1] < MAX_ITS

\* C10: the loop runs at most MAX_ITS iterations, no countdown goes below 0,
\* and the loop test fails exactly when every lane has escaped or has run
\* MAX_ITS update steps.
C10_JointExit ==
    mpc \in {"loop", "returned"} =>
        /\ steps <= MAX_ITS
        /\ \A j \in Lanes : m4.iterations4[j + 1] >= 0
        /\ (m4.mask = ALL_EXITED) <=>
              (\A j \in Lanes : m4.not_escape4[j + 1] = 0 \/ steps = MAX_ITS)
        /\ (mpc = "returned" => m4.mask = ALL_EXITED)

\* The loop ran to the cap for one lane after another lane had escaped.
C10_Witness ==
    /\ mpc = "returned"
    /\ steps = MAX_ITS
    /\ \E i, j \in Lanes : m4.not_escape4[i + 1] = 0 /\ m4.not_escape4[j + 1] = -1

\* ------------------------------------------------ claims on the palette

\* C3 as stated: index 0 for MAX_ITS, (k mod 64) + 1 below it, and that
\* index always in [1, 63].
C3_IndexInUpTo63 ==
    ppc = "index" =>
        \A j \in Lanes :
            /\ pits4[j + 1] = MAX_ITS => pidx4[j + 1] = 0
            /\ pits4[j + 1] < MAX_ITS =>
                  pidx4[j + 1] = (pits4[j + 1] % 64) + 1 /\ pidx4[j + 1] \in 1..63

\* C3, amended: index 0 for MAX_ITS, (k mod 64) + 1 below it, and that index
\* always in [1, 64], inside the 65 entries of pal.
C3_IndexInUpTo64 ==
    ppc = "index" =>
        \A j \in Lanes :
            /\ pits4[j + 1] = MAX_ITS => pidx4[j + 1] = 0
            /\ pits4[j + 1] < MAX_ITS =>
                  pidx4[j + 1] = (pits4[j + 1] % 64) + 1 /\ pidx4[j + 1] \in 1..64
            /\ pidx4[j + 1] < PalEntries

\* A count of 63 was mapped to index 64, next to a lane at the cap.
C3_Witness ==
    /\ ppc = "index"
    /\ \E i, j \in Lanes :
          /\ pits4[i + 1] = 63 /\ pidx4[i + 1] = 64
          /\ pits4[j + 1] = MAX_ITS /\ pidx4[j + 1] = 0

\* C9: for every count below MAX_ITS the colour the renderer selects,
\* pal[(k AND 0x3F) + 1], is ramp entry (k mod 40) + 1.
C9_MaskIsMod40 ==
    ppc = "index" =>
        \A j \in Lanes :
            pits4[j + 1] < MAX_ITS =>
                PalColor(pidx4[j + 1]) = PalColor((pits4[j + 1] % PAL_SIZE) + 1)


\* ------------------------------------------------ mandelbrot(): the frame

ZOOM_FACTOR == FromRat(107, 100)
\* PX and PY, the literals rounded to four decimals (the same float).
PX == FromRat(-7023, 10000)
PY == FromRat(3502, 10000)

\* The values of the compile-time pair (PX, PY) the model runs: the source's,
\* and one whose whole 4 x 4 window lies outside the escape radius.
PointsOfInterest == {<<PX, PY>>, <<FromInt(5), FromInt(0)>>}

Threads == 1..NumThreads
EventTypes == {"SDL_QUIT", "SDL_KEYDOWN"}

zoom_multiplier == FDiv(FromInt(1), ZOOM_FACTOR)
zoom_multiplier4 == mm_set1_ps(zoom_multiplier)
delta_x0 == FMul(FDiv(FromInt(1), FromInt(X_RES)), FromInt(4))
delta_y0 == FMul(FDiv(FromInt(1), FromInt(Y_RES)), FromInt(4))
center == FMul(FromRat(-1, 2), FromInt(4))

\* surface->pitch, the bytes of one row of the 32-bit surface.
PITCH == X_RES * 4

\* Mutant: the row is left out of the pixel's place in the buffer.
PixelOffset_NoRow(x, y) == x

\* line_offset + x, the place of pixel (x, y) in pix_buf.
PixelOffset(x, y) == y * (PITCH \div 4) + x

\* (r << 16) + (g << 8) + b
PixelValue(rgb) == rgb[1] * 65536 + rgb[2] * 256 + rgb[3]

\* putpixel: the buffer with pixel (x, y) set.
putpixel(buf, x, y, rgb) == [buf EXCEPT ![PixelOffset(x, y) + 1] = PixelValue(rgb)]

\* The four putpixel calls of one batch: lanes 0..3 to (hx + j, hy).
PutBatch(buf, hx, hy, color_index) ==
    LET b0 == putpixel(buf, hx, hy, PalColor(color_index[1]))
        b1 == putpixel(b0, hx + 1, hy, PalColor(color_index[2]))
        b2 == putpixel(b1, hx + 2, hy, PalColor(color_index[3]))
    IN  putpixel(b2, hx + 3, hy, PalColor(color_index[4]))

\* The history of the same four writes by thread t.
LogBatch(log, t, hx, hy) ==
    [n \in DOMAIN log |->
        IF \E j \in Lanes : n = PixelOffset(hx + j, hy) + 1
        THEN Append(log[n], <<t, hy>>) ELSE log[n]]

\* y4 of row hy: y_base + hy * delta_y in every lane.
RowY4(base, hy, dy) == mm_set1_ps(FAdd(base, FMul(FromInt(hy), dy)))

\* x4 at the start of a row: x_translate4 + x_offset4.
RowX4(px, xoff4) == mm_add_ps(mm_set1_ps(px), xoff4)

\* The window before the first pass: <<delta_x4, delta_y, y_offset, x_offset4>>.
Window0 ==
    <<mm_set1_ps(FMul(delta_x0, FromInt(4))),
      delta_y0,
      center,
      mm_setr_ps(center, FAdd(center, delta_x0),
                 FAdd(center, FMul(FromInt(2), delta_x0)),
                 FAdd(center, FMul(FromInt(3), delta_x0)))>>

\* Zoom in: the four window quantities times zoom_multiplier.
ZoomWindow(win) ==
    <<mm_mul_ps(win[1], zoom_multiplier4), FMul(win[2], zoom_multiplier),
      FMul(win[3], zoom_multiplier), mm_mul_ps(win[4], zoom_multiplier4)>>

RECURSIVE WindowAt(_)
\* The window after d zoom steps.
WindowAt(d) == IF d = 0 THEN Window0 ELSE ZoomWindow(WindowAt(d - 1))

RECURSIVE BatchX4(_, _, _)
\* x4 of batch b of a row: the row's first x4 moved on b times by delta_x4.
BatchX4(x4, dx4, b) == IF b = 0 THEN x4 ELSE mm_add_ps(BatchX4(x4, dx4, b - 1), dx4)

\* The <<x4, y4>> the passes of a run around p hand to member4.
FrameBatches(p) ==
    {<<BatchX4(RowX4(p[1], WindowAt(d)[4]), WindowAt(d)[1], b),
       RowY4(FAdd(p[2], WindowAt(d)[3]), hy, WindowAt(d)[2])>> :
        d \in 0..MAX_DEPTH, hy \in 0..(Y_RES - 1), b \in 0..(XBatches - 1)}

\* member4 is a function of its arguments alone: its4 holds its value on the
\* batches of the run, and a call reads it there.
Member4Table(p) == [b \in FrameBatches(p) |-> member4(b[1], b[2])]

\* The call member4(x4, y4) of the renderer.
Member4Call(x4, y4) == its4[<<x4, y4>>]

\* The shared window a render pass reads.
Window == <<y_base, delta_y, x_offset4, delta_x4>>

NoWorker == [st |-> "idle"]

\* A thread entering row hy of its chunk [hy, hi) with its private copies.
RowState(hy, hi, dy, xoff4, dx4) ==
    [st |-> "row", hy |-> hy, hi |-> hi, hx |-> 0,
     y4 |-> RowY4(y_base, hy, dy), x4 |-> RowX4(poi[1], xoff4),
     delta_y |-> dy, x_offset4 |-> xoff4, delta_x4 |-> dx4]

Init ==
    /\ poi \in PointsOfInterest
    /\ its4 = Member4Table(poi)
    /\ pc = "top"
    /\ depth = 0
    /\ quit = FALSE
    /\ delta_x4 = Window0[1]
    /\ delta_y = Window0[2]
    /\ y_offset = Window0[3]
    /\ x_offset4 = Window0[4]
    /\ y_base = Zero
    /\ next_row = 0
    /\ workers = [t \in Threads |-> NoWorker]
    /\ surface = [n \in 1..(X_RES * Y_RES) |-> 0]
    /\ events = <<>>
    /\ frames = 0 /\ started = 0 /\ posted = 0 /\ quit_early = FALSE
    /\ writes = [n \in 1..(X_RES * Y_RES) |-> <<>>]
    /\ row_win = [hy \in 0..(Y_RES - 1) |-> <<>>]
    /\ m4 = NoMember /\ mpc = "off" /\ ret = Idle4 /\ steps = 0
    /\ pits4 = Idle4 /\ pidx4 = Idle4 /\ ppc = "off"

\* while (!quit): a pass starts; y_base is set and the team enters the
\* parallel loop.
StartFrame ==
    /\ pc = "top" /\ ~quit
    /\ frames < MaxFrames
    /\ y_base' = FAdd(poi[2], y_offset)
    /\ next_row' = 0
    /\ pc' = "parallel"
    /\ started' = started + 1
    /\ writes' = [n \in DOMAIN writes |-> <<>>]
    /\ row_win' = [hy \in DOMAIN row_win |-> <<>>]
    /\ UNCHANGED <<poi, its4, quit, windowVars, workers, surface, events, frames, posted,
                   quit_early, memberVars, palVars>>

\* while (!quit) with quit set: mandelbrot returns.
Return ==
    /\ pc = "top" /\ quit
    /\ pc' = "done"
    /\ UNCHANGED <<poi, its4, quit, windowVars, y_base, next_row, workers, surface, events,
                   frames, started, posted, quit_early, writes, row_win,
                   memberVars, palVars>>

\* The first row not handed out, after a chunk of n rows from `first`.
AfterChunk(first, n) == first + n

\* schedule(guided, 50): an idle thread takes the next chunk of rows, of a
\* size the runtime chooses, and enters its first row with its firstprivate
\* copies of delta_y, x_offset4 and delta_x4.
Grab(t) ==
    /\ pc = "parallel"
    /\ workers[t].st = "idle"
    /\ next_row < Y_RES
    /\ \E n \in 1..(Y_RES - next_row) :
          /\ next_row' = AfterChunk(next_row, n)
          /\ workers' = [workers EXCEPT
                ![t] = RowState(next_row, next_row + n, delta_y, x_offset4, delta_x4)]
    /\ row_win' = [row_win EXCEPT ![next_row] = Window]
    /\ UNCHANGED <<poi, its4, pc, quit, windowVars, y_base, surface, events, frames, started,
                   posted, quit_early, writes, memberVars, palVars>>

\* One pass of the hx loop: member4 on the batch, the four pixels, x4 moved
\* on; after the last batch of a row the thread enters the next row of its
\* chunk or goes idle.
RenderBatch(t) ==
    LET w == workers[t]
    IN  /\ pc \in {"parallel", "flip", "zoom", "poll"}
        /\ w.st = "row"
        /\ surface' = PutBatch(surface, w.hx, w.hy, ColorIndex(Member4Call(w.x4, w.y4)))
        /\ writes' = LogBatch(writes, t, w.hx, w.hy)
        /\ IF w.hx + 4 < X_RES
           THEN /\ workers' = [workers EXCEPT ![t].hx = w.hx + 4,
                                              ![t].x4 = mm_add_ps(w.x4, w.delta_x4)]
                /\ UNCHANGED row_win
           ELSE IF w.hy + 1 < w.hi
           THEN /\ workers' = [workers EXCEPT
                      ![t] = RowState(w.hy + 1, w.hi, w.delta_y, w.x_offset4, w.delta_x4)]
                /\ row_win' = [row_win EXCEPT
                      ![w.hy + 1] = <<y_base, w.delta_y, w.x_offset4, w.delta_x4>>]
           ELSE /\ workers' = [workers EXCEPT ![t] = NoWorker]
                /\ UNCHANGED row_win
        /\ UNCHANGED <<poi, its4, pc, quit, windowVars, y_base, next_row, events, frames,
                       started, posted, quit_early, memberVars, palVars>>

\* Mutant: the control thread does not wait for the team.
TeamDone_NoWait == TRUE

\* The barrier at the end of the parallel loop: every row handed out and
\* every thread through with its chunk.
TeamDone == next_row >= Y_RES /\ \A t \in Threads : workers[t].st = "idle"

Join ==
    /\ pc = "parallel"
    /\ TeamDone
    /\ pc' = "flip"
    /\ UNCHANGED <<poi, its4, quit, windowVars, y_base, next_row, workers, surface, events,
                   frames, started, posted, quit_early, writes, row_win,
                   memberVars, palVars>>

\* SDL_Flip(surface)
Flip ==
    /\ pc = "flip"
    /\ frames' = frames + 1
    /\ pc' = "zoom"
    /\ UNCHANGED <<poi, its4, quit, windowVars, y_base, next_row, workers, surface, events,
                   started, posted, quit_early, writes, row_win, memberVars, palVars>>

\* Mutant: the zoom goes one step further.
ZoomGuard_OffByOne(d) == d <= MAX_DEPTH

ZoomGuard(d) == d < MAX_DEPTH

\* if (depth < MAX_DEPTH) { depth++; the four window quantities scaled }
Zoom ==
    /\ pc = "zoom"
    /\ IF ZoomGuard(depth)
       THEN LET win == ZoomWindow(<<delta_x4, delta_y, y_offset, x_offset4>>)
            IN  /\ depth' = depth + 1
                /\ delta_x4' = win[1]
                /\ delta_y' = win[2]
                /\ y_offset' = win[3]
                /\ x_offset4' = win[4]
       ELSE UNCHANGED windowVars
    /\ pc' = "poll"
    /\ UNCHANGED <<poi, its4, quit, y_base, next_row, workers, surface, events, frames,
                   started, posted, quit_early, writes, row_win, memberVars, palVars>>

\* if (SDL_PollEvent(&event)): at most one event is taken from the queue, and
\* quit is set when that event is SDL_QUIT.
Poll ==
    /\ pc = "poll"
    /\ IF events # <<>>
       THEN /\ events' = Tail(events)
            /\ quit' = IF Head(events) = "SDL_QUIT" THEN TRUE ELSE quit
       ELSE UNCHANGED <<events, quit>>
    /\ pc' = "top"
    /\ UNCHANGED <<poi, its4, windowVars, y_base, next_row, workers, surface, frames,
                   started, posted, quit_early, writes, row_win, memberVars, palVars>>

\* The environment (the window system, the user) posts an event.
Post(e) ==
    /\ pc \notin {"done", "off"}
    /\ posted < MaxEvents
    /\ events' = Append(events, e)
    /\ posted' = posted + 1
    /\ quit_early' = (quit_early \/ (e = "SDL_QUIT" /\ frames = 0
                                      /\ pc \in {"top", "parallel"}))
    /\ UNCHANGED <<poi, its4, pc, quit, windowVars, y_base, next_row, workers, surface,
                   frames, started, writes, row_win, memberVars, palVars>>

Next ==
    \/ StartFrame
    \/ Return
    \/ \E t \in Threads : Grab(t)
    \/ \E t \in Threads : RenderBatch(t)
    \/ Join
    \/ Flip
    \/ Zoom
    \/ Poll
    \/ \E e \in EventTypes : Post(e)

Spec == Init /\ [][Next]_vars


\* ---------------------------------------------------- claims on the frame

Pixels == 1..(X_RES * Y_RES)

\* The complex coordinate the current pass gives the pixel at place n.
PixelCx(n) ==
    BatchX4(RowX4(poi[1], x_offset4), delta_x4, ((n - 1) % X_RES) \div 4)[((n - 1) % 4) + 1]
PixelCy(n) == RowY4(y_base, (n - 1) \div X_RES, delta_y)[1]

\* cx*cx + cy*cy >= 4 for every pixel of the current window.
AllOutside ==
    \A n \in Pixels :
        ~FLt(FAdd(FMul(PixelCx(n), PixelCx(n)), FMul(PixelCy(n), PixelCy(n))), FromInt(4))

\* C2 as stated: a pass over a window whose every point is outside the escape
\* radius at step 0 leaves every pixel at palette entry 0 (black).
C2_AllOutsideBlack ==
    (pc = "flip" /\ AllOutside) =>
        \A n \in Pixels : surface[n] = PixelValue(PalColor(0))

\* C2, amended: a pass over a window whose every point is outside the escape
\* radius at step 0 leaves every pixel at palette entry 1, the first colour
\* after black.
C2_AllOutsideEntry1 ==
    (pc = "flip" /\ AllOutside) =>
        \A n \in Pixels : surface[n] = PixelValue(PalColor(1))

C2_Witness == pc = "flip" /\ AllOutside /\ depth = 1

\* C4 as stated: when SDL_QUIT is posted before the first pass completes, no
\* second pass is started.
C4_AtMostOnePass == quit_early => started <= 1

\* C5: depth starts at 0 and stays in 0..MAX_DEPTH; the zoom step after each
\* of the first MAX_DEPTH passes adds 1 to depth and multiplies delta_x4,
\* x_offset4, delta_y and y_offset by 1/ZOOM_FACTOR; the zoom step after every
\* later pass, and every other step, leaves depth and the four unchanged.
C5_ZoomProgression ==
    /\ depth = 0
    /\ [][/\ depth \in 0..MAX_DEPTH /\ depth' \in 0..MAX_DEPTH
          /\ IF pc = "zoom" /\ pc' = "poll"
             THEN IF frames <= MAX_DEPTH
                  THEN /\ depth = frames - 1
                       /\ depth' = depth + 1
                       /\ delta_x4' = mm_mul_ps(delta_x4,
                                                mm_set1_ps(FDiv(FromInt(1), ZOOM_FACTOR)))
                       /\ x_offset4' = mm_mul_ps(x_offset4,
                                                 mm_set1_ps(FDiv(FromInt(1), ZOOM_FACTOR)))
                       /\ delta_y' = FMul(delta_y, FDiv(FromInt(1), ZOOM_FACTOR))
                       /\ y_offset' = FMul(y_offset, FDiv(FromInt(1), ZOOM_FACTOR))
                  ELSE depth = MAX_DEPTH /\ UNCHANGED windowVars
             ELSE UNCHANGED windowVars]_vars

C5_Witness == pc = "poll" /\ frames = MAX_DEPTH + 1 /\ depth = MAX_DEPTH

\* C6: in one pass no pixel is written twice, a write made while rendering
\* row hy lands on a pixel of row hy, and when the pass is complete every
\* pixel has been written exactly once.
C6_EachPixelOnce ==
    /\ \A n \in Pixels :
          /\ Len(writes[n]) <= 1
          /\ \A i \in 1..Len(writes[n]) : writes[n][i][2] = (n - 1) \div X_RES
    /\ pc = "flip" => \A n \in Pixels : Len(writes[n]) = 1

C6_Witness ==
    /\ pc = "flip"
    /\ \A n \in Pixels : Len(writes[n]) = 1
    /\ \E n1, n2 \in Pixels : writes[n1][1][1] # writes[n2][1][1]

\* C7: at the flip and at the zoom step of a pass every row has been handed
\* out and rendered to its end, a thread is inside a row only while the
\* control thread waits at the end of the parallel loop, and every row of the
\* pass was computed from the window as it still is at the flip and the zoom
\* step.
C7_RowsBeforeFlipAndZoom ==
    /\ pc \in {"flip", "zoom"} =>
          /\ next_row >= Y_RES
          /\ \A t \in Threads : workers[t].st = "idle"
          /\ \A n \in Pixels : Len(writes[n]) >= 1
          /\ \A hy \in 0..(Y_RES - 1) : row_win[hy] # <<>>
    /\ (\E t \in Threads : workers[t].st = "row") => pc = "parallel"
    /\ pc \in {"parallel", "flip", "zoom"} =>
          \A hy \in 0..(Y_RES - 1) : row_win[hy] # <<>> => row_win[hy] = Window

C7_Witness ==
    /\ pc = "zoom" /\ frames = 2 /\ depth = 1
    /\ \E n1, n2 \in Pixels : writes[n1] # <<>> /\ writes[n2] # <<>>
                               /\ writes[n1][1][1] # writes[n2][1][1]

=============================================================================
